---- MODULE Spec2Model ----
(***************************************************************************)
(* Link-time plug-in registration (src/linktimeplugin.hpp).                *)
(*                                                                         *)
(* A program is a set of registration declarations, REGISTER_PLUGIN(x),    *)
(* each of which defines one static object of type Registrar<x> in one     *)
(* translation unit.  The model follows the life of such a program:        *)
(* static initialization constructs the registrar objects one at a time,   *)
(* in an order the platform chooses; each construction runs the            *)
(* RegistrarBase constructor (which appends `this` to the registry of the  *)
(* plug-in base class) and then the constructor of the member plugin_;     *)
(* plugins<T>() may be called at any moment code can run: from the         *)
(* initializer of another static object, from a plug-in constructor that   *)
(* is executing, or from main.                                             *)
(***************************************************************************)
EXTENDS Integers, Sequences, FiniteSets

\* Largest number of scopes (translation units, or namespaces of one
\* translation unit) in which a program declares the same plug-in class.
MaxScopes == 2

\* Largest number of registration declarations in a program.
MaxDecls == 3

\* The plug-in classes of the programs considered, and the plug-in base
\* class each names by its member alias "Base".
Types == {"Circle", "Square", "Mp3"}

Roots == {"Shape", "Codec"}

\* PLUGIN::Base
Base(t) == IF t = "Mp3" THEN "Codec" ELSE "Shape"

\* A registration declaration: REGISTER_PLUGIN(type) at file scope, in the
\* scope-th of the scopes that declare this type.  The object it defines,
\* type##registrar, is static: it has internal linkage, so a declaration of
\* the same type in another translation unit (or namespace) defines another
\* object, while a second one in the same scope does not compile.
AllDecls == [type : Types, scope : 1..MaxScopes]

\* The programs: at most MaxDecls declarations; the scopes declaring a type
\* are numbered from 1 without gaps.
Programs ==
    {S \in SUBSET AllDecls :
        /\ Cardinality(S) <= MaxDecls
        /\ \A d \in S : d.scope > 1 => [d EXCEPT !.scope = d.scope - 1] \in S}

VARIABLES
    decls,          \* the registration declarations of the linked program
    registrars_,    \* per base class: the unique_ptr to the vector of registrars
    state,          \* per declaration: how far its static object is constructed
    phase,          \* "static_init", "main" or "terminated"
    order,          \* history: registrars in the order RegistrarBase() registered them
    lastQuery,      \* the latest call of plugins<T>(), its outcome, and history:
                    \* the phase, the registrar under construction and the
                    \* registration order at the call, and the registrars it
                    \* returned that an earlier call had returned too
    seen            \* history: every <<registrar, reference>> a query returned

vars == <<decls, registrars_, state, phase, order, lastQuery, seen>>

----------------------------------------------------------------------------
\* Addresses.  Static objects have fixed, pairwise distinct addresses.

TypeIndex(t) == CHOOSE i \in 0..2 : t = <<"Circle", "Square", "Mp3">>[i + 1]

\* `this` of the static object a declaration defines.
RegistrarAddr(d) == 16 * (TypeIndex(d.type) * (MaxScopes + 1) + d.scope)

\* The address of the member plugin_ of that object.
PluginAddr(d) == RegistrarAddr(d) + 8

----------------------------------------------------------------------------
\* The registry a Registrar<PLUGIN> registers in: it derives from
\* RegistrarBase<typename PLUGIN::Base>, whose static member registrars_
\* exists once per BASE.
\* Faulty variant: registrars_ not per BASE, one registry for all.
OneRegistryForAll(d) == "Shape"

RegistryOf(d) == Base(d.type)

\* std::unique_ptr<std::vector<...>> registrars_, constant-initialized to
\* null before any dynamic initialization runs.
NullRegistry == [created |-> FALSE, items |-> <<>>]

\* registrars_.reset(new std::vector<RegistrarBase<BASE>*>), unless it is set.
\* Faulty variant: the test "if (!registrars_)" is missing.
AlwaysReset(reg) == [created |-> TRUE, items |-> <<>>]

EnsureCreated(reg) == IF ~reg.created THEN [created |-> TRUE, items |-> <<>>] ELSE reg

\* registrars_->push_back(this)
\* Faulty variants: insert at the front; append nothing; append twice.
PushFront(items, d) == <<d>> \o items

PushBackDropped(items, d) == items

PushBackTwice(items, d) == Append(Append(items, d), d)

PushBack(items, d) == Append(items, d)

\* Where control goes when the handler of the constructor's function-try-
\* block is left: reaching the end of such a handler rethrows the exception,
\* and the constructor is noexcept, so std::terminate is called.
AfterCatch == "terminated"

\* Registrar<PLUGIN>::operator()(): return plugin_
\* Faulty variant: a new object on every call instead of the member.
OperatorCallFresh(d) == PluginAddr(d) + 1024 * Cardinality(seen)

OperatorCall(d) == PluginAddr(d)

\* Whether plugins() appends to ret, and so allocates: only when the
\* registry exists and holds an entry.
\* Faulty variant: plugins() allocates even for an empty result.
QueryAlwaysAllocates(r) == TRUE

QueryAllocates(r) == registrars_[r].created /\ Len(registrars_[r].items) > 0

\* RegistrarBase<BASE>::plugins(): one reference per registrar, in the
\* order of the vector.
Plugins(r) ==
    IF registrars_[r].created
    THEN [i \in 1..Len(registrars_[r].items) |-> OperatorCall(registrars_[r].items[i])]
    ELSE <<>>

Range(s) == {s[i] : i \in DOMAIN s}

\* The registrar whose constructor is executing (between RegistrarBase()
\* and the end of plugin_'s constructor), if any.
Building == {d \in decls : state[d] = "base"}

----------------------------------------------------------------------------
NoQuery ==
    [root |-> "none", outcome |-> "none", result |-> <<>>,
     phase |-> "none", building |-> {}, order |-> <<>>, repeated |-> {}]

Init ==
    /\ decls \in Programs
    /\ registrars_ = [r \in Roots |-> NullRegistry]
    /\ state = [d \in AllDecls |-> "unconstructed"]
    /\ phase = "static_init"
    /\ order = <<>>
    /\ lastQuery = NoQuery
    /\ seen = {}

\* RegistrarBase<BASE>::RegistrarBase(), run as the first step of the
\* dynamic initialization of the static object of declaration d.
\* alloc says which allocation, if any, throws std::bad_alloc.
RegistrarBaseCtor(d) ==
    /\ phase = "static_init"
    /\ d \in decls
    /\ state[d] = "unconstructed"
    /\ Building = {}
    /\ \E alloc \in {"ok", "new_throws", "push_back_throws"} :
         LET r == RegistryOf(d)
             reg == registrars_[r]
             made == EnsureCreated(reg)
         IN  /\ alloc = "new_throws" => ~reg.created
             /\ IF alloc = "new_throws"
                THEN /\ UNCHANGED <<registrars_, order>>
                     /\ state' = [state EXCEPT ![d] = "alloc_failed"]
                     /\ phase' = AfterCatch
                ELSE IF alloc = "push_back_throws"
                THEN /\ registrars_' = [registrars_ EXCEPT ![r] = made]
                     /\ UNCHANGED order
                     /\ state' = [state EXCEPT ![d] = "alloc_failed"]
                     /\ phase' = AfterCatch
                ELSE /\ registrars_' =
                          [registrars_ EXCEPT
                              ![r] = [made EXCEPT !.items = PushBack(made.items, d)]]
                     /\ order' = Append(order, d)
                     /\ state' = [state EXCEPT ![d] = "base"]
                     /\ UNCHANGED phase
    /\ UNCHANGED <<decls, lastQuery, seen>>

\* The rest of Registrar<PLUGIN>'s implicit constructor: the member plugin_
\* is default-constructed after the base class.
PluginCtor(d) ==
    /\ phase = "static_init"
    /\ state[d] = "base"
    /\ state' = [state EXCEPT ![d] = "constructed"]
    /\ UNCHANGED <<decls, registrars_, phase, order, lastQuery, seen>>

\* PLUGIN's constructor throws.  The RegistrarBase subobject is destroyed
\* by the defaulted destructor, which leaves the vector alone; the
\* exception leaves the initialization of a static object, so
\* std::terminate is called.
PluginCtorThrows(d) ==
    /\ phase = "static_init"
    /\ state[d] = "base"
    /\ state' = [state EXCEPT ![d] = "failed"]
    /\ phase' = "terminated"
    /\ UNCHANGED <<decls, registrars_, order, lastQuery, seen>>

\* Static initialization is over once every static object is constructed;
\* main starts then.
EnterMain ==
    /\ phase = "static_init"
    /\ \A d \in decls : state[d] = "constructed"
    /\ phase' = "main"
    /\ UNCHANGED <<decls, registrars_, state, order, lastQuery, seen>>

\* linktimeplugin::plugins<T>() with T = r.  oom says whether an allocation
\* of the result vector throws std::bad_alloc, which reaches the caller.
Query(r) ==
    /\ phase \in {"static_init", "main"}
    /\ \E oom \in BOOLEAN :
         /\ oom => QueryAllocates(r)
         /\ lastQuery' =
              [root |-> r,
               outcome |-> IF oom THEN "bad_alloc" ELSE "returned",
               result |-> IF oom THEN <<>> ELSE Plugins(r),
               phase |-> phase,
               building |-> Building,
               order |-> order,
               repeated |-> IF oom THEN {}
                            ELSE {d \in Range(registrars_[r].items) :
                                    \E p \in seen : p[1] = d}]
         /\ seen' =
              IF oom THEN seen
              ELSE seen \cup {<<registrars_[r].items[i], Plugins(r)[i]>> :
                                 i \in 1..Len(Plugins(r))}
    /\ UNCHANGED <<decls, registrars_, state, phase, order>>

Next ==
    \/ \E d \in AllDecls : RegistrarBaseCtor(d)
    \/ \E d \in AllDecls : PluginCtor(d)
    \/ \E d \in AllDecls : PluginCtorThrows(d)
    \/ EnterMain
    \/ \E r \in Roots : Query(r)

Spec == Init /\ [][Next]_vars

----------------------------------------------------------------------------
\* Vocabulary of the properties.

\* The registrars of base class r among those of a registration history.
RegisteredIn(ord, r) == {d \in Range(ord) : Base(d.type) = r}

\* The part of a registration history that concerns base class r.
OrderOf(ord, r) == SelectSeq(ord, LAMBDA d : Base(d.type) = r)

\* The documented use (line 122): the declaration is used once per plug-in
\* class in the whole program.
DeclaredOnce(t) == Cardinality({d \in decls : d.type = t}) <= 1

DeclaredOnceUnder(r) == \A t \in Types : Base(t) = r => DeclaredOnce(t)

Returned == lastQuery.outcome = "returned"

\* How often registrar d occurs in the registry of its base class.
Entries(d) ==
    Cardinality({i \in DOMAIN registrars_[Base(d.type)].items :
                    registrars_[Base(d.type)].items[i] = d})

\* The plug-in instances of class t whose construction has completed.
Instances(t) == {PluginAddr(d) : d \in {e \in decls : e.type = t /\ state[e] = "constructed"}}

TypeOK ==
    /\ decls \in Programs
    /\ registrars_ \in [Roots -> [created : BOOLEAN, items : Seq(AllDecls)]]
    /\ state \in [AllDecls ->
                    {"unconstructed", "base", "constructed", "failed", "alloc_failed"}]
    /\ phase \in {"static_init", "main", "terminated"}
    /\ order \in Seq(AllDecls)
    /\ seen \subseteq (AllDecls \X Int)

----------------------------------------------------------------------------
\* C1: when K distinct plug-in classes of base class r, each declared once,
\* have been registered, plugins<r>() returns exactly K references: one to
\* the instance of each registered class, and the K are pairwise distinct.
C1_QueryReturnsOnePerRegisteredType ==
    \A r \in Roots :
        (lastQuery.root = r /\ Returned /\ DeclaredOnceUnder(r)) =>
            LET regd == RegisteredIn(lastQuery.order, r)
                res == lastQuery.result
            IN  /\ Len(res) = Cardinality({d.type : d \in regd})
                /\ \A d \in regd :
                      Cardinality({i \in DOMAIN res : res[i] = PluginAddr(d)}) = 1
                /\ \A i, j \in DOMAIN res : i /= j => res[i] /= res[j]

C1_Witness ==
    /\ lastQuery.root = "Shape"
    /\ Returned
    /\ DeclaredOnceUnder("Shape")
    /\ Cardinality(RegisteredIn(lastQuery.order, "Shape")) = 2
    /\ Len(lastQuery.result) = 2

\* C2: when an allocation fails during a registration, the registration
\* step lets no fault escape and startup is not aborted: the process keeps
\* running without that one registration.
C2_AllocationFailureIsSwallowed ==
    \A d \in decls :
        state[d] = "alloc_failed" =>
            /\ phase \in {"static_init", "main"}
            /\ Entries(d) = 0

\* C3: every reference plugins<T>() returns, whenever it is called, is to a
\* plug-in instance whose construction had completed: no entry is visible
\* while its plug-in instance is still being constructed.
C3_QueryReturnsOnlyConstructedInstances ==
    Returned =>
        \A i \in DOMAIN lastQuery.result :
            \A d \in lastQuery.building : lastQuery.result[i] /= PluginAddr(d)

\* C4 (as claimed): every declared plug-in class is in the result of every
\* call of plugins<T>() for its base class.
C4_EveryQueryReturnsEveryDeclaredType ==
    Returned =>
        \A d \in decls :
            Base(d.type) = lastQuery.root =>
                \E i \in DOMAIN lastQuery.result : lastQuery.result[i] = PluginAddr(d)

\* C4 (amended): every plug-in class declared at file scope is in the result
\* of every call of plugins<T>() made after static initialization has
\* completed, with no explicit registration call; a call made during static
\* initialization returns the classes registered by then.
C4_QueryFromMainReturnsEveryDeclaredType ==
    Returned =>
        /\ lastQuery.phase = "main" =>
              \A d \in decls :
                  Base(d.type) = lastQuery.root =>
                      \E i \in DOMAIN lastQuery.result :
                          lastQuery.result[i] = PluginAddr(d)
        /\ \A d \in RegisteredIn(lastQuery.order, lastQuery.root) :
              \E i \in DOMAIN lastQuery.result : lastQuery.result[i] = PluginAddr(d)

C4_Witness ==
    /\ Returned
    /\ lastQuery.phase = "main"
    /\ lastQuery.root = "Shape"
    /\ Cardinality({d \in decls : Base(d.type) = "Shape"}) = 2
    /\ Len(lastQuery.result) = 2

\* C5: over all queries of a run, whatever happens between them, a
\* registrar, and so a plug-in class that is declared once, is always
\* represented by the same reference, and a query constructs nothing.
C5_SameReferenceOnEveryQuery ==
    /\ [](\A p, q \in seen :
            (\/ p[1] = q[1]
             \/ p[1].type = q[1].type /\ DeclaredOnce(p[1].type)) => p[2] = q[2])
    /\ [][lastQuery' /= lastQuery => state' = state]_vars

C5_Witness ==
    /\ Returned
    /\ lastQuery.phase = "main"
    /\ Len(lastQuery.result) = 2
    /\ Cardinality(lastQuery.repeated) = 1
    /\ \A d \in lastQuery.repeated : <<d, PluginAddr(d)>> \in seen

\* C6: the registries of two base classes are disjoint: the construction
\* of a registrar changes the registry of its own base class only (contents
\* and created or not), a registry holds only registrars of its own base
\* class, and plugins<B>() returns no instance registered under another
\* base class.
C6_RegistriesAreDisjoint ==
    /\ [][\A d \in decls :
            (state[d] = "unconstructed" /\ state'[d] /= "unconstructed") =>
                \A r \in Roots \ {Base(d.type)} : registrars_'[r] = registrars_[r]]_vars
    /\ [](/\ \A r \in Roots :
               \A i \in DOMAIN registrars_[r].items :
                   Base(registrars_[r].items[i].type) = r
          /\ Returned =>
               \A i \in DOMAIN lastQuery.result :
                   \A d \in AllDecls :
                       lastQuery.result[i] = PluginAddr(d) =>
                           Base(d.type) = lastQuery.root)

C6_Witness ==
    /\ Returned
    /\ lastQuery.root = "Codec"
    /\ Len(lastQuery.result) = 1
    /\ Len(registrars_["Shape"].items) = 2
    /\ state[[type |-> "Mp3", scope |-> 1]] = "constructed"
    /\ order[Len(order)].type = "Circle"

\* C7: plugins<r>() called when no registration under r has occurred
\* returns the empty sequence, without a fault, and does not create the
\* registry of r.
C7_QueryOfUnregisteredRootIsEmpty ==
    /\ (lastQuery.root \in Roots /\ RegisteredIn(lastQuery.order, lastQuery.root) = {}) =>
          Returned /\ lastQuery.result = <<>>
    /\ \A r \in Roots :
          (\A d \in decls : Base(d.type) = r => state[d] = "unconstructed") =>
              ~registrars_[r].created

C7_Witness ==
    /\ lastQuery.root = "Codec"
    /\ Returned
    /\ lastQuery.result = <<>>
    /\ RegisteredIn(order, "Codec") = {}
    /\ ~registrars_["Codec"].created
    /\ Len(registrars_["Shape"].items) = 2

\* C8: a registry lists its registrars in the order in which they were
\* registered, so a registration appends one entry and moves or removes
\* none, and plugins<T>() returns the instances in that order.
C8_QueryFollowsRegistrationOrder ==
    /\ [](/\ \A r \in Roots : registrars_[r].items = OrderOf(order, r)
          /\ Returned =>
               LET regd == OrderOf(lastQuery.order, lastQuery.root)
               IN  lastQuery.result = [i \in 1..Len(regd) |-> PluginAddr(regd[i])])
    /\ [][\A r \in Roots :
            \/ registrars_'[r].items = registrars_[r].items
            \/ \E d \in decls :
                  /\ state[d] = "unconstructed"
                  /\ registrars_'[r].items = Append(registrars_[r].items, d)]_vars

C8_Witness ==
    /\ Returned
    /\ lastQuery.result =
          <<PluginAddr([type |-> "Square", scope |-> 1]),
            PluginAddr([type |-> "Circle", scope |-> 1])>>
    /\ Len(order) = 3
    /\ order[2].type = "Mp3"

\* C9 (as claimed): however the declaration is used, a registry holds at
\* most one entry per plug-in class, and exactly one plug-in instance exists
\* per registered class.  Stated for the states in which it is most
\* favourable to the claim: static initialization has completed, so every
\* registrar is completely constructed.
C9_OneEntryAndOneInstancePerType ==
    phase = "main" =>
        \A r \in Roots :
            /\ \A i, j \in DOMAIN registrars_[r].items :
                  i /= j => registrars_[r].items[i].type /= registrars_[r].items[j].type
            /\ \A i \in DOMAIN registrars_[r].items :
                  Cardinality(Instances(registrars_[r].items[i].type)) = 1

\* C9 (amended): for declarations at file scope, a registry holds exactly
\* one entry per registrar object whose RegistrarBase constructor has
\* completed and none for any other; so it holds at most one entry per
\* plug-in class when the class is declared once in the whole program, and
\* then at most one instance of the class exists, exactly one once its
\* registrar is completely constructed.
C9_OneEntryPerRegistrar ==
    /\ \A d \in AllDecls :
          Entries(d) = IF d \in Range(order) THEN 1 ELSE 0
    /\ \A t \in Types :
          DeclaredOnce(t) =>
              /\ Cardinality({i \in DOMAIN registrars_[Base(t)].items :
                                 registrars_[Base(t)].items[i].type = t}) <= 1
              /\ Cardinality(Instances(t)) <= 1
              /\ \A d \in decls :
                    (d.type = t /\ state[d] = "constructed") =>
                        Entries(d) = 1 /\ Instances(t) = {PluginAddr(d)}

C9_Witness ==
    /\ phase = "main"
    /\ \A t \in Types : DeclaredOnce(t)
    /\ Len(registrars_["Shape"].items) = 2
    /\ Cardinality(Instances("Circle")) = 1
    /\ Cardinality(Instances("Square")) = 1

\* C10 (as claimed): a registry is either not yet created, exactly when no
\* registration has occurred, or populated; a created registry is never
\* empty.
C10_TwoLifecycleStates ==
    \A r \in Roots :
        /\ ~registrars_[r].created <=> RegisteredIn(order, r) = {}
        /\ registrars_[r].created => Len(registrars_[r].items) >= 1

\* C10 (amended): a registry is not yet created (then no registration has
\* occurred), or populated (exactly when a registration has occurred), or
\* created and empty; the last only when the append of the first
\* registration failed after the storage had been created.  A created
\* registry never returns to not yet created.
C10_LifecycleStates ==
    /\ [](\A r \in Roots :
            /\ ~registrars_[r].created =>
                  registrars_[r].items = <<>> /\ RegisteredIn(order, r) = {}
            /\ Len(registrars_[r].items) >= 1 <=> RegisteredIn(order, r) /= {}
            /\ (registrars_[r].created /\ registrars_[r].items = <<>>) =>
                  \E d \in decls : Base(d.type) = r /\ state[d] = "alloc_failed")
    /\ [][\A r \in Roots : registrars_[r].created => registrars_'[r].created]_vars

C10_Witness ==
    /\ registrars_["Shape"].created
    /\ registrars_["Shape"].items = <<>>
    /\ Len(registrars_["Codec"].items) = 1
    /\ phase = "terminated"

====
